---- MODULE Spec2Model ----
(***************************************************************************)
(* Model of the postmarkee crate: the validated base URL (base_url.rs),    *)
(* the error taxonomy (error.rs), the send_email operation of the client   *)
(* (client.rs) and the inbound webhook model with its two field codecs     *)
(* (inbound.rs).                                                           *)
(*                                                                         *)
(* Text that the code inspects character by character (the Date string,    *)
(* the base64 Content string, the SubmittedAt string) is a sequence of     *)
(* one-character strings.  Text that the code only carries is a string.    *)
(***************************************************************************)
EXTENDS Integers, Sequences, FiniteSets, TLC

VARIABLES
    made,       \* base_url.rs: the BaseUrl values constructed so far
    last,       \* base_url.rs: the result of the latest BaseUrl::try_from
    clients,    \* client.rs: the PostmarkClient values constructed so far
    client,     \* client.rs: the PostmarkClient the send_email calls share
    calls,      \* client.rs: per send_email call, its position and locals
    requests,   \* client.rs: per send_email call, the HTTP requests issued
    email,      \* inbound.rs: an InboundEmail value
    wire,       \* inbound.rs: the JSON produced by serializing it
    back,       \* inbound.rs: the result of deserializing that JSON
    ipc         \* inbound.rs: position of the round trip

urlVars == <<made, last, clients>>
sendVars == <<client, calls, requests>>
inVars == <<email, wire, back, ipc>>
vars == <<made, last, clients, client, calls, requests, email, wire, back, ipc>>

Null == "<none>"

\* Option<T>
None == [some |-> FALSE]

Some(v) == [some |-> TRUE, value |-> v]

(***************************************************************************)
(* url::Url, as far as base_url.rs and client.rs look at it.               *)
(* segments = None is a URL whose path is opaque (cannot be a base).       *)
(***************************************************************************)
MkUrl(scheme, authority, segments, opaque) ==
    [scheme |-> scheme, authority |-> authority, segments |-> segments, opaque |-> opaque]

RECURSIVE JoinSegments(_)
JoinSegments(segs) ==
    IF segs = <<>> THEN "" ELSE "/" \o Head(segs) \o JoinSegments(Tail(segs))

\* Url's Display: the serialization
UrlToString(u) ==
    u.scheme \o ":"
        \o (IF u.authority = Null THEN "" ELSE "//" \o u.authority)
        \o (IF u.segments.some THEN JoinSegments(u.segments.value) ELSE u.opaque)

cannot_be_a_base(u) == ~u.segments.some

scheme(u) == u.scheme

\* Url::parse("https://api.postmarkapp.com"): the parser gives a special
\* scheme's empty path the single empty segment, "/"
DefaultUrl == MkUrl("https", "api.postmarkapp.com", Some(<<"">>), "")

\* The parsed URLs the model hands to BaseUrl::try_from
SampleUrls ==
    { DefaultUrl,
      MkUrl("https", "example.com", Some(<<"api", "">>), ""),
      MkUrl("http", "localhost:8080", Some(<<"">>), ""),
      MkUrl("http", "example.com", Some(<<"v1">>), ""),
      MkUrl("wss", "example.com", Some(<<"">>), ""),
      MkUrl("ftp", "example.com", Some(<<"pub">>), ""),
      MkUrl("file", "", Some(<<"tmp", "x">>), ""),
      MkUrl("data", Null, None, "text/plain,Stuff"),
      MkUrl("mailto", Null, None, "someone@example.com") }

(***************************************************************************)
(* error.rs                                                                *)
(***************************************************************************)
ErrorUrl(actual, reason) == [kind |-> "Url", actual |-> actual, reason |-> reason]

ErrorHttpClient(cause) == [kind |-> "HttpClient", cause |-> cause]

PostmarkUnprocessableEntity(receipt) == [variant |-> "UnprocessableEntity", receipt |-> receipt]

PostmarkOther(status) == [variant |-> "Other", status |-> status]

\* #[from] PostmarkError
ErrorPostmark(e) == [kind |-> "Postmark", error |-> e]

\* The backquote character of the Display format, which a TLA+ string cannot hold
BQ == "<backquote>"

\* Display of Error::Url: the pieces of "{reason}, was BQ{actual}BQ" in order
ErrorUrlToString(e) == <<e.reason, ", was ", BQ, UrlToString(e.actual), BQ>>

Ok(v) == [ok |-> TRUE, value |-> v]

Err(e) == [ok |-> FALSE, error |-> e]

(***************************************************************************)
(* base_url.rs                                                             *)
(***************************************************************************)
BaseUrl(u) == [url |-> u]

as_url(b) == b.url

into_inner(b) == b.url

TryFromNoSchemeCheck(value) ==
    IF cannot_be_a_base(value)
    THEN Err(ErrorUrl(value, "expecting a base URL"))
    ELSE Ok(BaseUrl(value))

TryFromSchemeFirst(value) ==
    IF scheme(value) \notin {"https", "http"}
    THEN Err(ErrorUrl(value, "expecting an HTTP URL"))
    ELSE IF cannot_be_a_base(value)
    THEN Err(ErrorUrl(value, "expecting a base URL"))
    ELSE Ok(BaseUrl(value))

\* impl TryFrom<Url> for BaseUrl
TryFrom(value) ==
    IF cannot_be_a_base(value)
    THEN Err(ErrorUrl(value, "expecting a base URL"))
    ELSE IF scheme(value) \notin {"https", "http"}
    THEN Err(ErrorUrl(value, "expecting an HTTP URL"))
    ELSE Ok(BaseUrl(value))

BaseUrlDefaultWebSocket == BaseUrl(MkUrl("wss", "api.postmarkapp.com", Some(<<"">>), ""))

\* impl Default for BaseUrl: the parsed literal is wrapped directly (the
\* try_into in the body is the Url -> Url conversion, which cannot fail)
BaseUrlDefault == BaseUrl(DefaultUrl)

(***************************************************************************)
(* client.rs: Config and PostmarkClient::new                               *)
(***************************************************************************)
ServerTokens == {"token-a", "token-b"}

DefaultHeaders(server_token) ==
    [content_type |-> "application/json",
     accept |-> "application/json",
     x_postmark_server_token |-> [value |-> server_token, sensitive |-> TRUE]]

\* PostmarkClient::new
PostmarkClientNew(config) ==
    [base_url |-> IF config.base_url.some THEN config.base_url.value ELSE BaseUrlDefault,
     http |-> DefaultHeaders(config.server_token)]

(***************************************************************************)
(* Base URLs and clients being made                                        *)
(***************************************************************************)
UrlInit ==
    /\ made = {}
    /\ last = None
    /\ clients = {}

\* BaseUrl::try_from(value)
TryFromUrl(value) ==
    LET r == TryFrom(value)
    IN /\ last' = Some([input |-> value, result |-> r])
       /\ made' = IF r.ok THEN made \cup {r.value} ELSE made
       /\ UNCHANGED <<clients, sendVars, inVars>>

\* BaseUrl::default()
DefaultBaseUrl ==
    /\ made' = made \cup {BaseUrlDefault}
    /\ UNCHANGED <<last, clients, sendVars, inVars>>

\* PostmarkClient::new(Config { base_url, server_token })
NewClient(base_url, server_token) ==
    /\ clients' = clients \cup
            {PostmarkClientNew([base_url |-> base_url, server_token |-> server_token])}
    /\ UNCHANGED <<made, last, sendVars, inVars>>

UrlNext ==
    \/ \E u \in SampleUrls : TryFromUrl(u)
    \/ DefaultBaseUrl
    \/ \E b \in {None} \cup {Some(x) : x \in made}, t \in ServerTokens : NewClient(b, t)

(***************************************************************************)
(* Text scanning, as chrono's format::scan does it.  A scan returns        *)
(* [ok, v, rest]: whether it matched, the value and the unread text.       *)
(***************************************************************************)
DigitChars == <<"0", "1", "2", "3", "4", "5", "6", "7", "8", "9">>

IsDigit(c) == \E i \in 1..10 : DigitChars[i] = c

DigitValue(c) == (CHOOSE i \in 1..10 : DigitChars[i] = c) - 1

Drop(s, n) == SubSeq(s, n + 1, Len(s))

Take(s, n) == SubSeq(s, 1, n)

ScanFail(s) == [ok |-> FALSE, v |-> 0, rest |-> s]

\* the number of leading digits of s, at most max
RECURSIVE LeadingDigits(_, _)
LeadingDigits(s, max) ==
    IF max = 0 \/ s = <<>> \/ ~IsDigit(Head(s)) THEN 0
    ELSE 1 + LeadingDigits(Tail(s), max - 1)

RECURSIVE DigitsValue(_, _)
DigitsValue(s, acc) ==
    IF s = <<>> THEN acc ELSE DigitsValue(Tail(s), acc * 10 + DigitValue(Head(s)))

\* scan::number(s, min, max): between min and max digits, as many as there are
number(s, min, max) ==
    LET n == LeadingDigits(s, max)
    IN IF n < min THEN ScanFail(s)
       ELSE [ok |-> TRUE, v |-> DigitsValue(Take(s, n), 0), rest |-> Drop(s, n)]

\* str::trim_left on the spaces of s
RECURSIVE trim_left(_)
trim_left(s) == IF s # <<>> /\ Head(s) = " " THEN trim_left(Tail(s)) ELSE s

\* scan::colon_or_space: any number of colons and spaces
RECURSIVE colon_or_space(_)
colon_or_space(s) ==
    IF s # <<>> /\ Head(s) \in {":", " "} THEN colon_or_space(Tail(s)) ELSE s

\* a literal of the pattern: the text must start with it
Literal(s, lit) ==
    IF Len(s) >= Len(lit) /\ Take(s, Len(lit)) = lit
    THEN [ok |-> TRUE, v |-> 0, rest |-> Drop(s, Len(lit))]
    ELSE ScanFail(s)

\* the decimal digits of n >= 0, at least width of them (zero padded)
RECURSIVE Digits(_, _)
Digits(n, width) ==
    IF n < 10 /\ width <= 1 THEN <<DigitChars[n + 1]>>
    ELSE Digits(n \div 10, width - 1) \o <<DigitChars[(n % 10) + 1]>>

(***************************************************************************)
(* chrono's calendar.  A DateTime<Utc> is the day number since 1970-01-01, *)
(* the second of that day and the nanosecond of that second, as            *)
(* NaiveDateTime holds a date and a time of day.                           *)
(***************************************************************************)
MkDateTime(days, secs, frac) == [days |-> days, secs |-> secs, frac |-> frac]

IsLeapYear(y) == (y % 4 = 0 /\ y % 100 # 0) \/ y % 400 = 0

DaysInMonth(y, m) ==
    IF m = 2 THEN (IF IsLeapYear(y) THEN 29 ELSE 28)
    ELSE IF m \in {4, 6, 9, 11} THEN 30 ELSE 31

\* the day number of a date of the proleptic Gregorian calendar
DaysFromCivil(year, m, d) ==
    LET y == IF m <= 2 THEN year - 1 ELSE year
        era == y \div 400
        yoe == y - era * 400
        mp == IF m > 2 THEN m - 3 ELSE m + 9
        doy == (153 * mp + 2) \div 5 + d - 1
        doe == yoe * 365 + yoe \div 4 - yoe \div 100 + doy
    IN era * 146097 + doe - 719468

\* the date of a day number
CivilFromDays(days) ==
    LET z == days + 719468
        era == z \div 146097
        doe == z - era * 146097
        yoe == (doe - doe \div 1460 + doe \div 36524 - doe \div 146096) \div 365
        doy == doe - (365 * yoe + yoe \div 4 - yoe \div 100)
        mp == (5 * doy + 2) \div 153
        d == doy - (153 * mp + 2) \div 5 + 1
        m == IF mp < 10 THEN mp + 3 ELSE mp - 9
    IN [year |-> IF m <= 2 THEN yoe + era * 400 + 1 ELSE yoe + era * 400,
        month |-> m, day |-> d]

\* the weekday of a day number, 0 = Sunday (1970-01-01 was a Thursday)
WeekdayOf(days) == (days + 4) % 7

WeekdayNames == <<"Sun", "Mon", "Tue", "Wed", "Thu", "Fri", "Sat">>

MonthNames ==
    <<"Jan", "Feb", "Mar", "Apr", "May", "Jun", "Jul", "Aug", "Sep", "Oct", "Nov", "Dec">>

\* the three letters of a short name, one character each
NameChars ==
    [n \in {"Sun", "Mon", "Tue", "Wed", "Thu", "Fri", "Sat", "Jan", "Feb", "Mar", "Apr",
            "May", "Jun", "Jul", "Aug", "Sep", "Oct", "Nov", "Dec"} |->
        CASE n = "Sun" -> <<"S", "u", "n">> [] n = "Mon" -> <<"M", "o", "n">>
          [] n = "Tue" -> <<"T", "u", "e">> [] n = "Wed" -> <<"W", "e", "d">>
          [] n = "Thu" -> <<"T", "h", "u">> [] n = "Fri" -> <<"F", "r", "i">>
          [] n = "Sat" -> <<"S", "a", "t">> [] n = "Jan" -> <<"J", "a", "n">>
          [] n = "Feb" -> <<"F", "e", "b">> [] n = "Mar" -> <<"M", "a", "r">>
          [] n = "Apr" -> <<"A", "p", "r">> [] n = "May" -> <<"M", "a", "y">>
          [] n = "Jun" -> <<"J", "u", "n">> [] n = "Jul" -> <<"J", "u", "l">>
          [] n = "Aug" -> <<"A", "u", "g">> [] n = "Sep" -> <<"S", "e", "p">>
          [] n = "Oct" -> <<"O", "c", "t">> [] n = "Nov" -> <<"N", "o", "v">>
          [] n = "Dec" -> <<"D", "e", "c">>]

\* scan::short_weekday / scan::short_month0: one of the names, then its index
\* from 0 (the names are matched as written here; the texts of the model do
\* not vary their case)
ShortName(s, names) ==
    IF \E i \in 1..Len(names) : Len(s) >= 3 /\ Take(s, 3) = NameChars[names[i]]
    THEN [ok |-> TRUE,
          v |-> (CHOOSE i \in 1..Len(names) : Take(s, 3) = NameChars[names[i]]) - 1,
          rest |-> Drop(s, 3)]
    ELSE ScanFail(s)

\* scan::timezone_offset(s, colon_or_space): sign, two digits of hours, any
\* colons or spaces, two digits of minutes; the offset east of UTC in seconds
timezone_offset(s) ==
    IF s = <<>> \/ Head(s) \notin {"+", "-"} THEN ScanFail(s)
    ELSE LET h == number(Tail(s), 2, 2)
             m == number(colon_or_space(h.rest), 2, 2)
         IN IF ~h.ok \/ ~m.ok \/ m.v > 59 THEN ScanFail(s)
            ELSE [ok |-> TRUE,
                  v |-> (IF Head(s) = "-" THEN -1 ELSE 1) * (h.v * 3600 + m.v * 60),
                  rest |-> m.rest]

RECURSIVE Pow10(_)
Pow10(n) == IF n = 0 THEN 1 ELSE 10 * Pow10(n - 1)

\* scan::nanosecond: up to nine digits of a fraction, as nanoseconds; the
\* digits after the ninth are skipped
nanosecond(s) ==
    LET n == LeadingDigits(s, 9)
    IN IF n = 0 THEN ScanFail(s)
       ELSE [ok |-> TRUE, v |-> DigitsValue(Take(s, n), 0) * Pow10(9 - n),
             rest |-> Drop(s, n + LeadingDigits(Drop(s, n), Len(s)))]

\* Parsed::to_datetime, then with_timezone(&Utc): the fields must name a real
\* date and time, the weekday (weekday is the set of the weekdays parsed: none
\* or one) must be that date's, and the local time less the offset is the UTC
\* instant
ToDateTimeUtc(weekday, year, month, day, hour, minute, second, frac, offset) ==
    IF month \notin 1..12 \/ day < 1 \/ day > DaysInMonth(year, month)
       \/ hour > 23 \/ minute > 59 \/ second > 60
    THEN Err("out of range")
    ELSE LET localDays == DaysFromCivil(year, month, day)
             \* a second of 60 is a leap second: second 59 with frac >= 10^9
             sec == IF second = 60 THEN 59 ELSE second
             lfrac == IF second = 60 THEN frac + 1000000000 ELSE frac
             local == hour * 3600 + minute * 60 + sec - offset
         IN IF weekday \notin {{}, {WeekdayOf(localDays)}}
            THEN Err("impossible")
            ELSE Ok(MkDateTime(localDays + (local \div 86400),
                               local % 86400, lfrac))

(***************************************************************************)
(* inbound.rs: rfc2822_serde, the codec of the Date field                  *)
(***************************************************************************)
\* const FORMAT = "%a, %-d %b %Y %H:%M:%S %:z", as StrftimeItems splits it
FORMAT == <<"%a", ",", " ", "%-d", " ", "%b", " ", "%Y", " ", "%H", ":", "%M", ":", "%S", " ", "%:z">>

\* one item of the pattern, written for the instant v
FormatItem(item, v) ==
    LET date == CivilFromDays(v.days)
        \* the offset of the Utc time zone, in seconds east
        off == 0
        absoff == IF off < 0 THEN -off ELSE off
    IN CASE item = "%a" -> NameChars[WeekdayNames[WeekdayOf(v.days) + 1]]
         [] item = "%-d" -> Digits(date.day, 1)
         [] item = "%b" -> NameChars[MonthNames[date.month]]
         [] item = "%Y" -> IF date.year \in 0..9999 THEN Digits(date.year, 4)
                           ELSE IF date.year < 0 THEN <<"-">> \o Digits(-date.year, 4)
                           ELSE <<"+">> \o Digits(date.year, 4)
         [] item = "%H" -> Digits(v.secs \div 3600, 2)
         [] item = "%M" -> Digits((v.secs \div 60) % 60, 2)
         [] item = "%S" -> Digits((v.secs % 60) + (IF v.frac >= 1000000000 THEN 1 ELSE 0), 2)
         [] item = "%:z" -> <<IF off < 0 THEN "-" ELSE "+">> \o Digits(absoff \div 3600, 2)
                                \o <<":">> \o Digits((absoff \div 60) % 60, 2)
         [] item = "%z" -> <<IF off < 0 THEN "-" ELSE "+">> \o Digits(absoff \div 3600, 2)
                                \o Digits((absoff \div 60) % 60, 2)
         [] OTHER -> <<item>>

\* DateTime::format(items).to_string()
RECURSIVE FormatItems(_, _)
FormatItems(items, v) ==
    IF items = <<>> THEN <<>> ELSE FormatItem(Head(items), v) \o FormatItems(Tail(items), v)

\* rfc2822_serde::serialize: the string handed to the serializer
SerializeDate(v) == FormatItems(FORMAT, v)

\* Parsed::new(): no field is set (have is the set of the fields set)
NoFields ==
    [have |-> {}, weekday |-> 0, day |-> 0, month |-> 0, year |-> 0,
     hour |-> 0, minute |-> 0, second |-> 0, nanosecond |-> 0, offset |-> 0]

RequiredFields == {"day", "month", "year", "hour", "minute", "second", "offset"}

WeekdayParsed(f) == IF "weekday" \in f.have THEN {f.weekday} ELSE {}

\* a year: with a sign any number of digits, without one at most four
ScanYear(s) ==
    IF s # <<>> /\ Head(s) = "-"
    THEN LET r == number(Tail(s), 1, Len(s)) IN [r EXCEPT !.v = -r.v]
    ELSE IF s # <<>> /\ Head(s) = "+" THEN number(Tail(s), 1, Len(s))
    ELSE number(s, 1, 4)

\* format::parse on one item: st is [ok, s, f], the text left and the fields set
ParseItem(item, st) ==
    LET s == st.s
        Put(field, r) ==
            IF r.ok THEN [ok |-> TRUE, s |-> r.rest,
                          f |-> [st.f EXCEPT ![field] = r.v, !.have = @ \cup {field}]]
            ELSE [st EXCEPT !.ok = FALSE]
    IN CASE item = "%a" -> Put("weekday", ShortName(s, WeekdayNames))
         [] item = "%-d" -> Put("day", number(trim_left(s), 1, 2))
         [] item = "%b" -> LET r == ShortName(s, MonthNames)
                           IN Put("month", [r EXCEPT !.v = r.v + 1])
         [] item = "%Y" -> Put("year", ScanYear(trim_left(s)))
         [] item = "%H" -> Put("hour", number(trim_left(s), 1, 2))
         [] item = "%M" -> Put("minute", number(trim_left(s), 1, 2))
         [] item = "%S" -> Put("second", number(trim_left(s), 1, 2))
         [] item \in {"%:z", "%z"} -> Put("offset", timezone_offset(trim_left(s)))
         [] item = "%m" -> Put("month", number(trim_left(s), 1, 2))
         [] item = "%d" -> Put("day", number(trim_left(s), 1, 2))
         [] item = "%.f" -> IF s # <<>> /\ Head(s) = "." THEN Put("nanosecond", nanosecond(Tail(s)))
                            ELSE st
         [] item = "%Z" -> IF s # <<>> /\ Head(s) \in {"Z", "z"}
                           THEN Put("offset", [ok |-> TRUE, v |-> 0, rest |-> Tail(s)])
                           ELSE Put("offset", timezone_offset(s))
         [] item = " " -> [st EXCEPT !.s = trim_left(s)]
         [] OTHER -> LET r == Literal(s, <<item>>)
                     IN IF r.ok THEN [st EXCEPT !.s = r.rest] ELSE [st EXCEPT !.ok = FALSE]

RECURSIVE ParseItems(_, _)
ParseItems(items, st) ==
    IF items = <<>> \/ ~st.ok THEN st ELSE ParseItems(Tail(items), ParseItem(Head(items), st))

\* DateTime::parse_from_str(v, items).map(|x| x.with_timezone(&Utc))
ParseFromStr(v, items) ==
    LET st == ParseItems(items, [ok |-> TRUE, s |-> v, f |-> NoFields])
        f == st.f
    IN IF ~st.ok THEN Err("invalid")
       ELSE IF st.s # <<>> THEN Err("too long")
       ELSE IF ~(RequiredFields \subseteq f.have) THEN Err("not enough")
       ELSE ToDateTimeUtc(WeekdayParsed(f), f.year, f.month, f.day, f.hour, f.minute, f.second,
                          f.nanosecond, f.offset)

DeserializeDateIgnoringOffset(v) ==
    LET st == ParseItems(FORMAT, [ok |-> TRUE, s |-> v, f |-> NoFields])
        f == st.f
    IN IF ~st.ok \/ st.s # <<>> THEN Err("invalid")
       ELSE ToDateTimeUtc(WeekdayParsed(f), f.year, f.month, f.day, f.hour, f.minute, f.second, 0, 0)

\* rfc2822_serde::deserialize, on the string the deserializer visits
DeserializeDate(v) == ParseFromStr(v, FORMAT)

(***************************************************************************)
(* inbound.rs: base64_serde, the codec of an attachment's Content          *)
(***************************************************************************)
\* the standard alphabet of the base64 crate
Alphabet ==
    <<"A", "B", "C", "D", "E", "F", "G", "H", "I", "J", "K", "L", "M", "N", "O", "P",
      "Q", "R", "S", "T", "U", "V", "W", "X", "Y", "Z", "a", "b", "c", "d", "e", "f",
      "g", "h", "i", "j", "k", "l", "m", "n", "o", "p", "q", "r", "s", "t", "u", "v",
      "w", "x", "y", "z", "0", "1", "2", "3", "4", "5", "6", "7", "8", "9", "+", "/">>

Sym(n) == Alphabet[n + 1]

IsSym(c) == \E i \in 1..64 : Alphabet[i] = c

SymValue(c) == (CHOOSE i \in 1..64 : Alphabet[i] = c) - 1

\* base64::encode: three bytes to four symbols, the tail padded with "="
RECURSIVE Base64Encode(_)
Base64Encode(b) ==
    IF Len(b) = 0 THEN <<>>
    ELSE IF Len(b) = 1
    THEN <<Sym(b[1] \div 4), Sym((b[1] % 4) * 16), "=", "=">>
    ELSE IF Len(b) = 2
    THEN <<Sym(b[1] \div 4), Sym((b[1] % 4) * 16 + b[2] \div 16), Sym((b[2] % 16) * 4), "=">>
    ELSE <<Sym(b[1] \div 4), Sym((b[1] % 4) * 16 + b[2] \div 16),
           Sym((b[2] % 16) * 4 + b[3] \div 64), Sym(b[3] % 64)>>
         \o Base64Encode(Drop(b, 3))

Base64EncodeNoPad(b) == SelectSeq(Base64Encode(b), LAMBDA c : c # "=")

\* base64::decode of padded text: four symbols to three bytes; padding only
\* at the end, and the bits the padding leaves unused must be zero
RECURSIVE Base64Decode(_)
Base64Decode(t) ==
    IF Len(t) = 0 THEN Ok(<<>>)
    ELSE IF Len(t) < 4 \/ ~IsSym(t[1]) \/ ~IsSym(t[2]) THEN Err("invalid base64")
    ELSE LET a == SymValue(t[1])
             b == SymValue(t[2])
             b1 == a * 4 + b \div 16
         IN IF t[3] = "=" /\ t[4] = "="
            THEN IF Len(t) = 4 /\ b % 16 = 0 THEN Ok(<<b1>>) ELSE Err("invalid base64")
            ELSE IF ~IsSym(t[3]) THEN Err("invalid base64")
            ELSE LET c == SymValue(t[3])
                     b2 == (b % 16) * 16 + c \div 4
                 IN IF t[4] = "="
                    THEN IF Len(t) = 4 /\ c % 4 = 0 THEN Ok(<<b1, b2>>)
                         ELSE Err("invalid base64")
                    ELSE IF ~IsSym(t[4]) THEN Err("invalid base64")
                    ELSE LET r == Base64Decode(Drop(t, 4))
                         IN IF r.ok THEN Ok(<<b1, b2, (c % 4) * 64 + SymValue(t[4])>> \o r.value)
                            ELSE r

(***************************************************************************)
(* serde_json values.  An object is the sequence of its <<key, value>>     *)
(* members in the order of the text.  JChars is a JSON string whose        *)
(* characters the model spells out; JStr is one it only carries.           *)
(***************************************************************************)
JStr(v) == [t |-> "str", v |-> v]

JChars(v) == [t |-> "chars", v |-> v]

JNum(v) == [t |-> "num", v |-> v]

JArr(v) == [t |-> "arr", v |-> v]

JObj(v) == [t |-> "obj", v |-> v]

JNull == [t |-> "null", v |-> <<>>]

\* text that is no JSON at all
JInvalid == [t |-> "invalid", v |-> <<>>]

Keys(obj) == {obj.v[i][1] : i \in 1..Len(obj.v)}

\* a struct's field read from a map: a missing or a duplicate field is an
\* error, the members of other names are skipped
Field(obj, key) ==
    LET at == {i \in 1..Len(obj.v) : obj.v[i][1] = key}
    IN IF obj.t # "obj" THEN Err("invalid type")
       ELSE IF at = {} THEN Err("missing field")
       ELSE IF Cardinality(at) > 1 THEN Err("duplicate field")
       ELSE Ok(obj.v[CHOOSE i \in at : TRUE][2])

\* String
DeString(r) ==
    IF ~r.ok THEN r ELSE IF r.value.t # "str" THEN Err("invalid type") ELSE Ok(r.value.v)

\* an integer type of the given range
DeInt(r, lo, hi) ==
    IF ~r.ok THEN r
    ELSE IF r.value.t # "num" THEN Err("invalid type")
    ELSE IF r.value.v < lo \/ r.value.v > hi THEN Err("invalid value")
    ELSE Ok(r.value.v)

\* a field with a codec on the visited string
DeWith(r, Codec(_)) ==
    IF ~r.ok THEN r
    ELSE IF r.value.t # "chars" THEN Err("invalid type")
    ELSE Codec(r.value.v)

\* Vec<T>
DeVec(r, De(_)) ==
    IF ~r.ok THEN r
    ELSE IF r.value.t # "arr" THEN Err("invalid type")
    ELSE LET items == [i \in 1..Len(r.value.v) |-> De(Ok(r.value.v[i]))]
         IN IF \E i \in 1..Len(items) : ~items[i].ok THEN Err("invalid element")
            ELSE Ok([i \in 1..Len(items) |-> items[i].value])

SerVec(v, Ser(_)) == JArr([i \in 1..Len(v) |-> Ser(v[i])])

AllOk(rs) == \A k \in DOMAIN rs : rs[k].ok

Values(rs) == [k \in DOMAIN rs |-> rs[k].value]

(***************************************************************************)
(* inbound.rs: the derived Serialize and Deserialize of the structs        *)
(***************************************************************************)
I32Min == -2147483647 - 1

I32Max == 2147483647

SerializeParticipant(x) ==
    JObj(<< <<"Email", JStr(x.email)>>, <<"Name", JStr(x.name)>>,
            <<"MailboxHash", JStr(x.mailbox_hash)>> >>)

DeserializeParticipant(r) ==
    IF ~r.ok THEN r
    ELSE LET rs == [email |-> DeString(Field(r.value, "Email")),
                    name |-> DeString(Field(r.value, "Name")),
                    mailbox_hash |-> DeString(Field(r.value, "MailboxHash"))]
         IN IF AllOk(rs) THEN Ok(Values(rs)) ELSE Err("Participant")

SerializeHeader(x) == JObj(<< <<"Name", JStr(x.name)>>, <<"Value", JStr(x.value)>> >>)

DeserializeHeader(r) ==
    IF ~r.ok THEN r
    ELSE LET rs == [name |-> DeString(Field(r.value, "Name")),
                    value |-> DeString(Field(r.value, "Value"))]
         IN IF AllOk(rs) THEN Ok(Values(rs)) ELSE Err("Header")

SerializeContentNoPad(v) == Base64EncodeNoPad(v)

\* base64_serde::serialize
SerializeContent(v) == Base64Encode(v)

\* base64_serde::deserialize, on the string the deserializer visits
DeserializeContent(v) == Base64Decode(v)

SerializeAttachment(x) ==
    JObj(<< <<"Name", JStr(x.name)>>, <<"Content", JChars(SerializeContent(x.content))>>,
            <<"ContentType", JStr(x.content_type)>>,
            <<"ContentLength", JNum(x.content_length)>> >>)

DeserializeAttachment(r) ==
    IF ~r.ok THEN r
    ELSE LET rs == [name |-> DeString(Field(r.value, "Name")),
                    content |-> DeWith(Field(r.value, "Content"), DeserializeContent),
                    content_type |-> DeString(Field(r.value, "ContentType")),
                    content_length |-> DeInt(Field(r.value, "ContentLength"), I32Min, I32Max)]
         IN IF AllOk(rs) THEN Ok(Values(rs)) ELSE Err("Attachment")

\* serde_json::to_string(&InboundEmail): the members in the order of the fields
SerializeInboundEmail(x) ==
    JObj(<< <<"FromName", JStr(x.from_name)>>,
            <<"MessageStream", JStr(x.message_stream)>>,
            <<"FromFull", SerializeParticipant(x.from_full)>>,
            <<"ToFull", SerVec(x.to_full, SerializeParticipant)>>,
            <<"CcFull", SerVec(x.cc_full, SerializeParticipant)>>,
            <<"BccFull", SerVec(x.bcc_full, SerializeParticipant)>>,
            <<"OriginalRecipient", JStr(x.original_recipient)>>,
            <<"Subject", JStr(x.subject)>>,
            <<"MessageID", JStr(x.message_id)>>,
            <<"ReplyTo", JStr(x.reply_to)>>,
            <<"MailboxHash", JStr(x.mailbox_hash)>>,
            <<"Date", JChars(SerializeDate(x.date))>>,
            <<"TextBody", JStr(x.text_body)>>,
            <<"HtmlBody", JStr(x.html_body)>>,
            <<"StrippedTextReply", JStr(x.stripped_text_reply)>>,
            <<"Tag", JStr(x.tag)>>,
            <<"Headers", SerVec(x.headers, SerializeHeader)>>,
            <<"Attachments", SerVec(x.attachments, SerializeAttachment)>> >>)

\* serde_json::from_str::<InboundEmail>
DeserializeInboundEmail(j) ==
    LET rs == [from_name |-> DeString(Field(j, "FromName")),
               message_stream |-> DeString(Field(j, "MessageStream")),
               from_full |-> DeserializeParticipant(Field(j, "FromFull")),
               to_full |-> DeVec(Field(j, "ToFull"), DeserializeParticipant),
               cc_full |-> DeVec(Field(j, "CcFull"), DeserializeParticipant),
               bcc_full |-> DeVec(Field(j, "BccFull"), DeserializeParticipant),
               original_recipient |-> DeString(Field(j, "OriginalRecipient")),
               subject |-> DeString(Field(j, "Subject")),
               message_id |-> DeString(Field(j, "MessageID")),
               reply_to |-> DeString(Field(j, "ReplyTo")),
               mailbox_hash |-> DeString(Field(j, "MailboxHash")),
               date |-> DeWith(Field(j, "Date"), DeserializeDate),
               text_body |-> DeString(Field(j, "TextBody")),
               html_body |-> DeString(Field(j, "HtmlBody")),
               stripped_text_reply |-> DeString(Field(j, "StrippedTextReply")),
               tag |-> DeString(Field(j, "Tag")),
               headers |-> DeVec(Field(j, "Headers"), DeserializeHeader),
               attachments |-> DeVec(Field(j, "Attachments"), DeserializeAttachment)]
    IN IF j.t # "obj" THEN Err("invalid type")
       ELSE IF AllOk(rs) THEN Ok(Values(rs)) ELSE Err("InboundEmail")

(***************************************************************************)
(* The InboundEmail values and the webhook payloads of the model           *)
(***************************************************************************)
\* bound: the longest attachment content drawn, in bytes
MaxContentLen == 3

SampleBytes == {0, 77, 255}

RECURSIVE SeqsUpTo(_, _)
SeqsUpTo(S, n) ==
    IF n = 0 THEN {<<>>}
    ELSE LET shorter == SeqsUpTo(S, n - 1)
         IN shorter \cup {Append(q, x) : q \in {r \in shorter : Len(r) = n - 1}, x \in S}

SampleContents == SeqsUpTo(SampleBytes, MaxContentLen)

\* 0000-01-01, 1969-12-31, 1970-01-01, 2000-02-29, 2014-02-17, 2106-02-07 (the
\* day of the last u32 timestamp) and 9999-12-31
SampleDays ==
    {DaysFromCivil(0, 1, 1), -1, 0, 11016, 16118, 49710, DaysFromCivil(9999, 12, 31)}

SampleSecs == {0, 23295, 86399}

\* no fraction of a second, and one
SampleFracs == {0, 417864500}

SampleDates == {MkDateTime(d, t, f) : d \in SampleDays, t \in SampleSecs, f \in SampleFracs}

Alice == [email |-> "alice@example.com", name |-> "Alice \"A\"", mailbox_hash |-> ""]

Bob == [email |-> "bob+hash@example.com", name |-> "", mailbox_hash |-> "hash"]

FixedAttachment ==
    [name |-> "empty.bin", content |-> <<>>, content_type |-> "application/octet-stream",
     content_length |-> 0]

MkAttachment(content) ==
    [name |-> "a.bin", content |-> content, content_type |-> "image/png",
     content_length |-> Len(content)]

\* the fields that no codec touches, in two shapes: all empty, and none empty
SampleShapes ==
    { [name |-> "", text |-> "", to |-> <<>>, headers |-> <<>>, more |-> <<>>],
      [name |-> "Bob", text |-> "<b>\\</b>\nline", to |-> <<Alice, Bob>>,
       headers |-> <<[name |-> "A", value |-> "1"], [name |-> "A", value |-> "2"]>>,
       more |-> <<FixedAttachment>>] }

MkInboundEmail(date, attachments, shape) ==
    [from_name |-> shape.name, message_stream |-> "inbound", from_full |-> Alice,
     to_full |-> shape.to, cc_full |-> <<>>, bcc_full |-> shape.to,
     original_recipient |-> "bob@example.com", subject |-> shape.text,
     message_id |-> "0a129aee", reply_to |-> shape.name, mailbox_hash |-> "",
     date |-> date, text_body |-> shape.text, html_body |-> shape.text,
     stripped_text_reply |-> "", tag |-> shape.name, headers |-> shape.headers,
     attachments |-> attachments \o shape.more]

InboundEmails ==
    {MkInboundEmail(d, a, sh) :
        d \in SampleDates,
        a \in {<<>>} \cup {<<MkAttachment(c)>> : c \in SampleContents},
        sh \in SampleShapes}

\* Date strings a webhook payload may carry
\* "Wed, 17 Feb 2014 07:25:01 -0500"
DateWed17Feb ==
    <<"W", "e", "d", ",", " ", "1", "7", " ", "F", "e", "b", " ", "2", "0", "1", "4", " ",
      "0", "7", ":", "2", "5", ":", "0", "1", " ", "-", "0", "5", "0", "0">>

\* "Mon, 17 Feb 2014 07:25:01 -0500"
DateMon17Feb ==
    <<"M", "o", "n", ",", " ", "1", "7", " ", "F", "e", "b", " ", "2", "0", "1", "4", " ",
      "0", "7", ":", "2", "5", ":", "0", "1", " ", "-", "0", "5", "0", "0">>

\* "Thu, 5 Apr 2012 16:59:01 +0200"
DateThu5Apr ==
    <<"T", "h", "u", ",", " ", "5", " ", "A", "p", "r", " ", "2", "0", "1", "2", " ", "1",
      "6", ":", "5", "9", ":", "0", "1", " ", "+", "0", "2", "0", "0">>

\* "Mon, 17 Feb 2014 12:25:01 +00:00"
DateColonOffset ==
    <<"M", "o", "n", ",", " ", "1", "7", " ", "F", "e", "b", " ", "2", "0", "1", "4", " ",
      "1", "2", ":", "2", "5", ":", "0", "1", " ", "+", "0", "0", ":", "0", "0">>

\* "Mon, 17 Feb 2014 23:25:01 -0500"
DateLateEvening ==
    <<"M", "o", "n", ",", " ", "1", "7", " ", "F", "e", "b", " ", "2", "0", "1", "4", " ",
      "2", "3", ":", "2", "5", ":", "0", "1", " ", "-", "0", "5", "0", "0">>

\* "2014-02-17T07:25:01-05:00"
DateIso ==
    <<"2", "0", "1", "4", "-", "0", "2", "-", "1", "7", "T", "0", "7", ":", "2", "5", ":",
      "0", "1", "-", "0", "5", ":", "0", "0">>

\* "Sun, 30 Feb 2014 07:25:01 +0000"
DateNoSuchDay ==
    <<"S", "u", "n", ",", " ", "3", "0", " ", "F", "e", "b", " ", "2", "0", "1", "4", " ",
      "0", "7", ":", "2", "5", ":", "0", "1", " ", "+", "0", "0", "0", "0">>

DateTexts ==
    {DateWed17Feb, DateMon17Feb, DateThu5Apr, DateColonOffset, DateLateEvening,
     DateIso, DateNoSuchDay}

\* Content strings a webhook payload may carry: three that are base64 and
\* three that are not (a foreign character, unused bits set, a short group)
ContentTexts ==
    { <<>>, <<"T", "Q", "=", "=">>, <<"A", "P", "8", "A">>,
      <<"T", "!", "=", "=">>, <<"T", "R", "=", "=">>, <<"T", "Q", "=">> }

\* the JSON of a webhook call with the given Date and attachment Content
WebhookPayload(dateText, contentText) ==
    JObj(<< <<"FromName", JStr("Postmarkapp Support")>>,
            <<"MessageStream", JStr("inbound")>>,
            <<"FromFull", SerializeParticipant(Alice)>>,
            <<"ToFull", JArr(<<SerializeParticipant(Bob)>>)>>,
            <<"CcFull", JArr(<<>>)>>,
            <<"BccFull", JArr(<<>>)>>,
            <<"OriginalRecipient", JStr("bob@example.com")>>,
            <<"Subject", JStr("Test subject")>>,
            <<"MessageID", JStr("73e6d360-66eb-11e1-8e72-a8904824019b")>>,
            <<"ReplyTo", JStr("reply@example.com")>>,
            <<"MailboxHash", JStr("SampleHash")>>,
            <<"Date", JChars(dateText)>>,
            <<"TextBody", JStr("This is a test text body.")>>,
            <<"HtmlBody", JStr("<html/>")>>,
            <<"StrippedTextReply", JStr("This is the reply text")>>,
            <<"Tag", JStr("TestTag")>>,
            <<"Headers", JArr(<<SerializeHeader([name |-> "X-Header-Test", value |-> ""])>>)>>,
            <<"Attachments",
              JArr(<<JObj(<< <<"Name", JStr("test.txt")>>,
                             <<"Content", JChars(contentText)>>,
                             <<"ContentType", JStr("text/plain")>>,
                             <<"ContentLength", JNum(Len(contentText))>> >>)>>)>> >>)

WebhookPayloads == {WebhookPayload(d, c) : d \in DateTexts, c \in ContentTexts}

\* the member of the given key of a JSON object that has it once
Member(obj, key) == Field(obj, key).value

(***************************************************************************)
(* The inbound model at work: a value is built and serialized, or a        *)
(* payload is received; the JSON is deserialized; a deserialized value may *)
(* be serialized again (tests/inbound_email_tests.rs).                     *)
(***************************************************************************)
InboundInit ==
    /\ email = None
    /\ wire = None
    /\ back = None
    /\ ipc = "idle"

Build(x) ==
    /\ ipc = "idle"
    /\ email' = Some(x)
    /\ ipc' = "value"
    /\ UNCHANGED <<wire, back, urlVars, sendVars>>

\* serde_json::to_string(&v)
Serialize ==
    /\ ipc = "value"
    /\ wire' = Some(SerializeInboundEmail(email.value))
    /\ ipc' = "json"
    /\ UNCHANGED <<email, back, urlVars, sendVars>>

Receive(payload) ==
    /\ ipc = "idle"
    /\ wire' = Some(payload)
    /\ ipc' = "json"
    /\ UNCHANGED <<email, back, urlVars, sendVars>>

\* serde_json::from_str::<InboundEmail>(&json)
Deserialize ==
    /\ ipc = "json"
    /\ back' = Some(DeserializeInboundEmail(wire.value))
    /\ ipc' = "parsed"
    /\ UNCHANGED <<email, wire, urlVars, sendVars>>

\* test_serialize: the value deserialized from a payload is serialized
Reserialize ==
    /\ ipc = "parsed"
    /\ ~email.some
    /\ back.value.ok
    /\ email' = Some(back.value.value)
    /\ wire' = Some(SerializeInboundEmail(back.value.value))
    /\ back' = None
    /\ ipc' = "json"
    /\ UNCHANGED <<urlVars, sendVars>>

InboundNext ==
    \/ \E x \in InboundEmails : Build(x)
    \/ Serialize
    \/ \E p \in WebhookPayloads : Receive(p)
    \/ Deserialize
    \/ Reserialize

(***************************************************************************)
(* client.rs: the types of send_email                                      *)
(***************************************************************************)
Html(html) == [tag |-> "Html", html |-> html, text |-> ""]

Text(text) == [tag |-> "Text", html |-> "", text |-> text]

Both(html, text) == [tag |-> "Both", html |-> html, text |-> text]

\* EmailBody::into_tuple
into_tuple(body) ==
    CASE body.tag = "Html" -> <<Some(body.html), None>>
      [] body.tag = "Text" -> <<None, Some(body.text)>>
      [] body.tag = "Both" -> <<Some(body.html), Some(body.text)>>

\* [&str]::join(sep)
RECURSIVE join(_, _)
join(strs, sep) ==
    IF strs = <<>> THEN ""
    ELSE IF Len(strs) = 1 THEN strs[1]
    ELSE strs[1] \o sep \o join(Tail(strs), sep)

\* Option<&str>: None is written as null
SerializeOption(o) == IF o.some THEN JStr(o.value) ELSE JNull

SerializeSendEmailPayloadSkippingNone(p) ==
    JObj(SelectSeq(<< <<"From", JStr(p.from)>>, <<"To", JStr(p.to)>>,
                      <<"Subject", JStr(p.subject)>>,
                      <<"HtmlBody", SerializeOption(p.html_body)>>,
                      <<"TextBody", SerializeOption(p.text_body)>>,
                      <<"MessageStream", SerializeOption(p.message_stream)>> >>,
                   LAMBDA m : m[2].t # "null"))

\* the derived Serialize of SendEmailPayload, rename_all = "PascalCase": every
\* field is a member, in the order of the fields
SerializeSendEmailPayload(p) ==
    JObj(<< <<"From", JStr(p.from)>>, <<"To", JStr(p.to)>>,
            <<"Subject", JStr(p.subject)>>,
            <<"HtmlBody", SerializeOption(p.html_body)>>,
            <<"TextBody", SerializeOption(p.text_body)>>,
            <<"MessageStream", SerializeOption(p.message_stream)>> >>)

\* the items of chrono's RFC 3339 reading of a DateTime, as Deserialize for
\* DateTime<Utc> applies it to the SubmittedAt string
Rfc3339Items ==
    <<"%Y", "-", "%m", "-", "%d", "T", "%H", ":", "%M", ":", "%S", "%.f", "%Z">>

DeserializeDateTimeUtc(v) == ParseFromStr(v, Rfc3339Items)

U16Max == 65535

\* the derived Deserialize of SendReceipt
DeserializeSendReceipt(j) ==
    LET rs == [to |-> DeString(Field(j, "To")),
               submitted_at |-> DeWith(Field(j, "SubmittedAt"), DeserializeDateTimeUtc),
               message_id |-> DeString(Field(j, "MessageID"))]
    IN IF AllOk(rs) THEN Ok(Values(rs)) ELSE Err("SendReceipt")

\* the derived Deserialize of ErrorReceipt
DeserializeErrorReceipt(j) ==
    LET rs == [error_code |-> DeInt(Field(j, "ErrorCode"), 0, U16Max),
               message |-> DeString(Field(j, "Message"))]
    IN IF AllOk(rs) THEN Ok(Values(rs)) ELSE Err("ErrorReceipt")

StatusOk == 200

StatusUnprocessableEntity == 422

OutcomeTreating4xxAsEntity(response) ==
    IF response.status = StatusOk
    THEN LET r == DeserializeSendReceipt(response.body)
         IN [parsed |-> TRUE,
             result |-> IF r.ok THEN Ok(r.value) ELSE Err(ErrorHttpClient("decode"))]
    ELSE IF response.status \in 400..499
    THEN LET r == DeserializeErrorReceipt(response.body)
         IN [parsed |-> TRUE,
             result |-> IF r.ok THEN Err(ErrorPostmark(PostmarkUnprocessableEntity(r.value)))
                        ELSE Err(ErrorHttpClient("decode"))]
    ELSE [parsed |-> FALSE, result |-> Err(ErrorPostmark(PostmarkOther(response.status)))]

OutcomeDecodeFailureAsOther(response) ==
    LET r == IF response.status = StatusOk THEN DeserializeSendReceipt(response.body)
             ELSE DeserializeErrorReceipt(response.body)
    IN IF response.status \in {StatusOk, StatusUnprocessableEntity} /\ r.ok
       THEN [parsed |-> TRUE,
             result |-> IF response.status = StatusOk THEN Ok(r.value)
                        ELSE Err(ErrorPostmark(PostmarkUnprocessableEntity(r.value)))]
       ELSE [parsed |-> response.status \in {StatusOk, StatusUnprocessableEntity},
             result |-> Err(ErrorPostmark(PostmarkOther(response.status)))]

\* send_email from the response on: the match on the status code.  parsed
\* tells whether response.json() was called
Outcome(response) ==
    IF response.status = StatusOk
    THEN LET r == DeserializeSendReceipt(response.body)
         IN [parsed |-> TRUE,
             result |-> IF r.ok THEN Ok(r.value) ELSE Err(ErrorHttpClient("decode"))]
    ELSE IF response.status = StatusUnprocessableEntity
    THEN LET r == DeserializeErrorReceipt(response.body)
         IN [parsed |-> TRUE,
             result |-> IF r.ok THEN Err(ErrorPostmark(PostmarkUnprocessableEntity(r.value)))
                        ELSE Err(ErrorHttpClient("decode"))]
    ELSE [parsed |-> FALSE, result |-> Err(ErrorPostmark(PostmarkOther(response.status)))]

(***************************************************************************)
(* client.rs: send_email.  A call stops twice, at request.send().await and *)
(* at response.json().await; in between the transport and the server act.  *)
(***************************************************************************)
\* bound: the number of send_email calls in flight on the one client
NCalls == 2

Callers == 1..NCalls

\* PathSegmentsMut::push: a path of "/" alone becomes "/segment"
push(u, segment) ==
    [u EXCEPT !.segments =
        Some(IF @.value = <<"">> THEN <<segment>> ELSE Append(@.value, segment))]

TransmitWithRetry(sent, request) == <<request, request>>

\* request.send(): the request goes out once
Transmit(sent, request) == Append(sent, request)

\* send_email up to request.send(): the request it builds
BuildRequest(self, sender, message_stream, em) ==
    LET url == push(into_inner(self.base_url), "email")
        recipients == join(em.recipients, ",")
        bodies == into_tuple(em.body)
        payload == [from |-> sender, to |-> recipients, subject |-> em.subject,
                    html_body |-> bodies[1], text_body |-> bodies[2],
                    message_stream |-> message_stream]
    IN [method |-> "POST", url |-> UrlToString(url), headers |-> self.http,
        body |-> SerializeSendEmailPayload(payload)]

IdleCall == [pc |-> "idle", args |-> None, response |-> None, outcome |-> None]

\* the clients PostmarkClient::new can return
Clients ==
    {PostmarkClientNew([base_url |-> b, server_token |-> t]) :
        b \in {None} \cup {Some(TryFrom(u).value) : u \in {x \in SampleUrls : TryFrom(x).ok}},
        t \in ServerTokens}

SendInit ==
    /\ client \in Clients
    /\ calls = [c \in Callers |-> IdleCall]
    /\ requests = [c \in Callers |-> <<>>]

\* send_email is called and runs to request.send().await
SendStart(c, sender, message_stream, em) ==
    /\ calls[c].pc = "idle"
    /\ requests' = [requests EXCEPT
            ![c] = Transmit(@, BuildRequest(client, sender, message_stream, em))]
    /\ calls' = [calls EXCEPT ![c] =
            [@ EXCEPT !.pc = "awaiting",
                      !.args = Some([sender |-> sender, message_stream |-> message_stream,
                                     email |-> em])]]
    /\ UNCHANGED <<client, urlVars, inVars>>

\* request.send().await? fails: no response arrives
TransportFail(c) ==
    /\ calls[c].pc = "awaiting"
    /\ calls' = [calls EXCEPT ![c] =
            [@ EXCEPT !.pc = "done",
                      !.outcome = Some([parsed |-> FALSE,
                                        result |-> Err(ErrorHttpClient("send"))])]]
    /\ UNCHANGED <<client, requests, urlVars, inVars>>

\* the server's response arrives
Respond(c, status, body) ==
    /\ calls[c].pc = "awaiting"
    /\ calls' = [calls EXCEPT ![c] =
            [@ EXCEPT !.pc = "responded",
                      !.response = Some([status |-> status, body |-> body])]]
    /\ UNCHANGED <<client, requests, urlVars, inVars>>

\* send_email from response.status() to its return
Finish(c) ==
    /\ calls[c].pc = "responded"
    /\ calls' = [calls EXCEPT ![c] =
            [@ EXCEPT !.pc = "done", !.outcome = Some(Outcome(calls[c].response.value))]]
    /\ UNCHANGED <<client, requests, urlVars, inVars>>

\* "2014-02-17T07:25:01.4178645-05:00"
SubmittedAtText ==
    <<"2", "0", "1", "4", "-", "0", "2", "-", "1", "7", "T", "0", "7", ":", "2", "5", ":",
      "0", "1", ".", "4", "1", "7", "8", "6", "4", "5", "-", "0", "5", ":", "0", "0">>

\* "yesterday"
YesterdayText ==
    <<"y", "e", "s", "t", "e", "r", "d", "a", "y">>

\* the body of client.rs's deserialize_send_receipt test
ReceiptBody ==
    JObj(<< <<"To", JStr("receiver@example.com")>>,
            <<"SubmittedAt", JChars(SubmittedAtText)>>,
            <<"MessageID", JStr("0a129aee-e1cd-480d-b08d-4f48548ff48d")>>,
            <<"ErrorCode", JNum(0)>>, <<"Message", JStr("OK")>> >>)

\* the body of client.rs's deserialize_error_receipt test
ErrorBody == JObj(<< <<"ErrorCode", JNum(405)>>, <<"Message", JStr("details")>> >>)

InactiveRecipientBody ==
    JObj(<< <<"ErrorCode", JNum(406)>>, <<"Message", JStr("inactive recipient")>> >>)

\* bodies that are neither receipt: no JSON, a date that is none, a member
\* missing, an error code beyond u16, one of the wrong type, and a body whose
\* reading the connection cut short
BadDateBody ==
    JObj(<< <<"To", JStr("receiver@example.com")>>, <<"SubmittedAt", JChars(YesterdayText)>>,
            <<"MessageID", JStr("0a129aee")>> >>)

NoIdBody ==
    JObj(<< <<"To", JStr("receiver@example.com")>>,
            <<"SubmittedAt", JChars(SubmittedAtText)>> >>)

BigCodeBody == JObj(<< <<"ErrorCode", JNum(70000)>>, <<"Message", JStr("details")>> >>)

TextCodeBody == JObj(<< <<"ErrorCode", JStr("405")>>, <<"Message", JStr("details")>> >>)

CutShortBody == [t |-> "cut short", v |-> <<>>]

Bodies ==
    <<ReceiptBody, ErrorBody, InactiveRecipientBody, JInvalid, BadDateBody, NoIdBody,
      BigCodeBody, TextCodeBody, CutShortBody>>

Statuses == {200, 201, 401, 404, 422, 500}

Streams == {None, Some("outbound")}

Emails ==
    {[recipients |-> r, subject |-> "Hello", body |-> b] :
        r \in {<<"a@example.com">>, <<"a@example.com", "b@example.com">>},
        b \in {Html("<p>hi</p>"), Text("hi"), Both("<p>hi</p>", "hi")}}

\* one call at a time, over all the arguments and responses of the model
SendNext ==
    \/ \E ms \in Streams, em \in Emails : SendStart(1, "sender@example.com", ms, em)
    \/ TransportFail(1)
    \/ \E st \in Statuses, i \in 1..Len(Bodies) : Respond(1, st, Bodies[i])
    \/ Finish(1)

\* calls in flight together, over fewer arguments and responses
ConcurrentNext ==
    \E c \in Callers :
        \/ \E em \in {e \in Emails : Len(e.recipients) = 1 /\ e.body.tag # "Both"} :
                SendStart(c, "sender@example.com", None, em)
        \/ TransportFail(c)
        \/ \E st \in {200, 422, 500}, i \in 1..2 : Respond(c, st, Bodies[i])
        \/ Finish(c)

(***************************************************************************)
(* The specifications                                                      *)
(***************************************************************************)
\* the client built from a Config without a base URL
DefaultClient == PostmarkClientNew([base_url |-> None, server_token |-> "token-a"])

Init == UrlInit /\ SendInit /\ client = DefaultClient /\ InboundInit

InitAnyClient == UrlInit /\ SendInit /\ InboundInit

\* base URLs and clients are made
Spec == Init /\ [][UrlNext]_vars

\* one send_email call, on any client
SpecSend == InitAnyClient /\ [][SendNext]_vars

\* concurrent send_email calls
SpecConcurrent == Init /\ [][ConcurrentNext]_vars

\* the inbound model
SpecInbound == Init /\ [][InboundNext]_vars

(***************************************************************************)
(* Properties                                                              *)
(***************************************************************************)
HttpSchemes == {"http", "https"}

IsOneMember(obj, key, type) ==
    /\ Cardinality({i \in 1..Len(obj.v) : obj.v[i][1] = key}) = 1
    /\ \A i \in 1..Len(obj.v) : obj.v[i][1] = key => obj.v[i][2].t = type

\* a JSON body with the members of a SendReceipt: {To, SubmittedAt, MessageID},
\* SubmittedAt an RFC 3339 date-time
IsSendReceiptJson(b) ==
    /\ b.t = "obj"
    /\ IsOneMember(b, "To", "str")
    /\ IsOneMember(b, "MessageID", "str")
    /\ IsOneMember(b, "SubmittedAt", "chars")
    /\ \A i \in 1..Len(b.v) : b.v[i][1] = "SubmittedAt" => b.v[i][2].v = SubmittedAtText

\* a JSON body with the members of an ErrorReceipt: {ErrorCode, Message}
IsErrorReceiptJson(b) ==
    /\ b.t = "obj"
    /\ IsOneMember(b, "ErrorCode", "num")
    /\ IsOneMember(b, "Message", "str")
    /\ \A i \in 1..Len(b.v) : b.v[i][1] = "ErrorCode" => b.v[i][2].v \in 0..65535

\* 2014-02-17T12:25:01Z
Feb17At122501 == MkDateTime(DaysFromCivil(2014, 2, 17), 12 * 3600 + 25 * 60 + 1, 0)

IsPostmarkError(result) == ~result.ok /\ result.error.kind = "Postmark"

IsHttpClientError(result) == ~result.ok /\ result.error.kind = "HttpClient"

Done(c) == calls[c].pc = "done"

\* C1: a 200 response with a well-formed SendReceipt body yields Ok(receipt), a
\* 422 response with a well-formed ErrorReceipt body yields
\* Err(Postmark(UnprocessableEntity(r))) with that body's code and message, and
\* a response of any other status yields Err(Postmark(Other(status))) with that
\* status, the body not parsed.
C1_StatusMapping ==
    \A c \in Callers :
        Done(c) /\ calls[c].response.some =>
            LET r == calls[c].response.value
                o == calls[c].outcome.value
            IN /\ r.status = 200 /\ IsSendReceiptJson(r.body) =>
                    /\ o.result.ok
                    /\ o.result.value.to = Member(r.body, "To").v
                    /\ o.result.value.message_id = Member(r.body, "MessageID").v
                    /\ o.result.value.submitted_at =
                            [Feb17At122501 EXCEPT !.frac = 417864500]
               /\ r.status = 422 /\ IsErrorReceiptJson(r.body) =>
                    /\ IsPostmarkError(o.result)
                    /\ o.result.error.error.variant = "UnprocessableEntity"
                    /\ o.result.error.error.receipt.error_code = Member(r.body, "ErrorCode").v
                    /\ o.result.error.error.receipt.message = Member(r.body, "Message").v
               /\ r.status \notin {200, 422} =>
                    /\ IsPostmarkError(o.result)
                    /\ o.result.error.error.variant = "Other"
                    /\ o.result.error.error.status = r.status
                    /\ ~o.parsed

\* a call that got 422 with the error receipt of the crate's test has returned
C1_Witness ==
    /\ Done(1)
    /\ calls[1].response.some
    /\ calls[1].response.value.status = 422
    /\ calls[1].response.value.body.t = "obj"
    /\ Keys(calls[1].response.value.body) = {"ErrorCode", "Message"}
    /\ IsPostmarkError(calls[1].outcome.value.result)

\* C2 as stated: every URL whose scheme is neither http nor https is rejected
\* with the reason "expecting an HTTP URL".
C2_NonHttpSchemeGivesHttpReason ==
    last.some /\ scheme(last.value.input) \notin HttpSchemes =>
        /\ ~last.value.result.ok
        /\ last.value.result.error.kind = "Url"
        /\ last.value.result.error.reason = "expecting an HTTP URL"

\* C2 amended: every URL that can be a base and whose scheme is neither http
\* nor https is rejected with the reason "expecting an HTTP URL", displayed as
\* "expecting an HTTP URL, was <the URL between backquotes>".
C2_NonHttpBaseGivesHttpReason ==
    last.some /\ scheme(last.value.input) \notin HttpSchemes
              /\ ~cannot_be_a_base(last.value.input) =>
        /\ ~last.value.result.ok
        /\ last.value.result.error.kind = "Url"
        /\ last.value.result.error.reason = "expecting an HTTP URL"
        /\ ErrorUrlToString(last.value.result.error) =
                <<"expecting an HTTP URL", ", was ", BQ, UrlToString(last.value.input), BQ>>

\* try_from has just rejected wss://example.com/, the URL of test_not_http_url
C2_Witness ==
    /\ last.some
    /\ UrlToString(last.value.input) = "wss://example.com/"
    /\ ~last.value.result.ok

\* C3: every URL that cannot be a base, whatever its scheme, is rejected with
\* the reason "expecting a base URL", the error carrying the rejected URL.
C3_NotBaseGivesBaseReason ==
    last.some /\ cannot_be_a_base(last.value.input) =>
        /\ ~last.value.result.ok
        /\ last.value.result.error.kind = "Url"
        /\ last.value.result.error.reason = "expecting a base URL"
        /\ last.value.result.error.actual = last.value.input
        /\ ErrorUrlToString(last.value.result.error) =
                <<"expecting a base URL", ", was ", BQ, UrlToString(last.value.input), BQ>>

\* try_from has just rejected data:text/plain,Stuff, the URL of test_not_base_url
C3_Witness ==
    /\ last.some
    /\ UrlToString(last.value.input) = "data:text/plain,Stuff"
    /\ ~last.value.result.ok

RoundTripped == ipc = "parsed" /\ email.some

RequestSent(c) == Len(requests[c]) > 0

Absent(c) ==
    LET a == calls[c].args.value
    IN (IF a.email.body.tag = "Text" THEN {"HtmlBody"} ELSE {})
        \cup (IF a.email.body.tag = "Html" THEN {"TextBody"} ELSE {})
        \cup (IF a.message_stream.some THEN {} ELSE {"MessageStream"})

\* C5 as stated: in the request body the optional fields HtmlBody, TextBody and
\* MessageStream are omitted whenever their value is absent.
C5_AbsentFieldsOmitted ==
    \A c \in Callers : RequestSent(c) => Keys(requests[c][1].body) \cap Absent(c) = {}

\* C5 amended: the request body always has the six members From, To, Subject,
\* HtmlBody, TextBody and MessageStream; an optional field whose value is
\* absent is a member with the value null, and one that is present a string.
C5_AbsentFieldsNull ==
    \A c \in Callers :
        RequestSent(c) =>
            LET b == requests[c][1].body
            IN /\ b.t = "obj"
               /\ [i \in 1..Len(b.v) |-> b.v[i][1]] =
                    <<"From", "To", "Subject", "HtmlBody", "TextBody", "MessageStream">>
               /\ \A i \in 1..Len(b.v) :
                    b.v[i][2].t = IF b.v[i][1] \in Absent(c) THEN "null" ELSE "str"

\* a call with an HTML-only body and no message stream has sent its request
C5_Witness ==
    /\ RequestSent(1)
    /\ calls[1].args.value.email.body.tag = "Html"
    /\ ~calls[1].args.value.message_stream.some

DateTextOf(j) == Member(j, "Date").v

\* C6: the serialized date is the pattern written for the stored UTC instant
\* and its offset is always the text +0000.
C6_OffsetIsPlus0000 ==
    ipc = "json" /\ email.some =>
        LET t == DateTextOf(wire.value)
        IN /\ t = SerializeDate(email.value.date)
           /\ Len(t) >= 5
           /\ SubSeq(t, Len(t) - 4, Len(t)) = <<"+", "0", "0", "0", "0">>

\* C7: every BaseUrl that exists wraps a URL that can be a base and whose
\* scheme is http or https; the default is https://api.postmarkapp.com/ and
\* passes try_from; so does the base URL of every PostmarkClient.
ValidBase(b) == ~cannot_be_a_base(as_url(b)) /\ scheme(as_url(b)) \in HttpSchemes

C7_BaseUrlsValid ==
    /\ \A b \in made : ValidBase(b)
    /\ BaseUrlDefault \in made =>
        /\ UrlToString(as_url(BaseUrlDefault)) = "https://api.postmarkapp.com/"
        /\ TryFrom(as_url(BaseUrlDefault)) = Ok(BaseUrlDefault)
    /\ \A c \in clients : ValidBase(c.base_url)

\* the default base URL, a given one, and a client of each exist
C7_Witness ==
    /\ BaseUrlDefault \in made
    /\ \E b \in made : b # BaseUrlDefault
    /\ \E c \in clients : c.base_url = BaseUrlDefault
    /\ \E c \in clients : c.base_url # BaseUrlDefault

\* C8: a transport failure and a JSON decode failure of the body of a 200 or a
\* 422 response surface as Error::HttpClient; Error::Postmark is returned only
\* for a 422 response with a well-formed ErrorReceipt body or for a response of
\* a status other than 200 and 422.
C8_TransportVersusPostmark ==
    \A c \in Callers :
        Done(c) =>
            LET o == calls[c].outcome.value
                got == calls[c].response
            IN /\ ~got.some => IsHttpClientError(o.result)
               /\ got.some /\ got.value.status = 200 /\ ~IsSendReceiptJson(got.value.body) =>
                    IsHttpClientError(o.result)
               /\ got.some /\ got.value.status = 422 /\ ~IsErrorReceiptJson(got.value.body) =>
                    IsHttpClientError(o.result)
               /\ IsPostmarkError(o.result) =>
                    /\ got.some
                    /\ \/ got.value.status = 422 /\ IsErrorReceiptJson(got.value.body)
                       \/ got.value.status \notin {200, 422}

\* a call that got 200 with a body that is no JSON has returned
C8_Witness ==
    /\ Done(1)
    /\ calls[1].response.some
    /\ calls[1].response.value.status = 200
    /\ calls[1].response.value.body.t = "invalid"
    /\ IsHttpClientError(calls[1].outcome.value.result)

\* what a call that has got this far has sent and returned, from its own
\* arguments and response alone
OwnRequest(c) ==
    LET a == calls[c].args.value
    IN BuildRequest(DefaultClient, a.sender, a.message_stream, a.email)

CallOnItsOwn(c) ==
    /\ requests[c] = IF calls[c].pc = "idle" THEN <<>> ELSE <<OwnRequest(c)>>
    /\ Done(c) =>
        \A d \in Callers :
            Done(d) /\ calls[d].response = calls[c].response =>
                calls[d].outcome = calls[c].outcome

\* C9: under any interleaving of concurrent send_email calls on one client, no
\* step changes the client, a step of one call leaves the other calls alone,
\* each call has issued exactly one request, built from its own arguments,
\* whatever its outcome, and calls with the same response return the same.
C9_CallsIndependent ==
    [][/\ client' = client
       /\ \E c \in Callers :
            \A d \in Callers \ {c} : calls'[d] = calls[d] /\ requests'[d] = requests[d]
       /\ \A c \in Callers : CallOnItsOwn(c)']_vars

\* two calls are in flight together, one with its response and one without
C9_Witness ==
    /\ calls[1].pc = "responded"
    /\ calls[2].pc = "awaiting"
    /\ Len(requests[1]) = 1
    /\ Len(requests[2]) = 1

Received(dateText) ==
    /\ ipc = "parsed"
    /\ ~email.some
    /\ DateTextOf(wire.value) = dateText
    /\ Base64Decode(Member(Member(wire.value, "Attachments").v[1], "Content").v).ok

\* C10 as stated: the Date "Wed, 17 Feb 2014 07:25:01 -0500" deserializes to
\* the UTC instant 2014-02-17T12:25:01Z.
C10_WedLiteralParses ==
    Received(DateWed17Feb) => back.value.ok /\ back.value.value.date = Feb17At122501

\* C10 amended: the Date "Mon, 17 Feb 2014 07:25:01 -0500", which names the
\* weekday that 17 Feb 2014 was, deserializes to the UTC instant
\* 2014-02-17T12:25:01Z.
C10_MonLiteralParses ==
    Received(DateMon17Feb) => back.value.ok /\ back.value.value.date = Feb17At122501

\* a payload dated "Mon, 17 Feb 2014 07:25:01 -0500" has been deserialized
C10_Witness == Received(DateMon17Feb) /\ back.value.ok

====
